---- MODULE Spec2Model ----
(***************************************************************************)
(* Model of the weather poller of src/core/weather.py:                     *)
(*   weather()        resolves the city, then loops: fetch, print, sleep   *)
(*   fetch_api()      one HTTP GET per attempt, at most 5 attempts         *)
(*   print_weather()  validates the payload and prints one line per metric *)
(* Text is modelled as sequences of one-character strings, so that         *)
(* str.lower() and str.capitalize() are computed and not assumed.  JSON    *)
(* values are tagged records.  The console, the HTTP client and            *)
(* asyncio.sleep are observed through the event log `events`.              *)
(***************************************************************************)
EXTENDS Integers, Sequences, FiniteSets, TLC

VARIABLES
    city_arg,       \* weather(city, ...): the argument as the caller gave it
    city,           \* weather: local `city` (rebound by city.lower(), line 35)
    interval_sec,   \* weather: argument interval_sec
    param_arg,      \* weather(..., param_current): None or a MetricSpec
    param_current,  \* weather: local `param_current` after the default (36-38)
    pc,             \* position of the single task
    params,         \* fetch_api: local `params` (78-82)
    repeat_fetch,   \* fetch_api: local `repeat_fetch`
    response,       \* fetch_api: local `response`
    data_weather,   \* weather: local `data_weather`
    raised,         \* the exception that left weather(), or NoExc
    cycle,          \* number of completed iterations of the loop of line 46
    attempts,       \* outcomes of the GETs of the current fetch_api call
    events          \* console lines, GETs and sleeps of the current iteration

vars == << city_arg, city, interval_sec, param_arg, param_current, pc, params,
           repeat_fetch, response, data_weather, raised, cycle, attempts,
           events >>

-----------------------------------------------------------------------------
(* Bounds of the model.                                                    *)

\* iterations of the `while True` loop of weather() that are explored
MaxCycles == 2
\* interval_sec ranges over 0..MaxInterval
MaxInterval == 3
\* longest MetricSpec given to print_weather in SpecPresent
MaxMetrics == 2

-----------------------------------------------------------------------------
(* Text: str.lower(), str.capitalize(), ','.join()                         *)

LowerLetters == << "a", "b", "c", "d", "e", "f", "g", "h", "i", "j", "k", "l",
                   "m", "n", "o", "p", "q", "r", "s", "t", "u", "v", "w", "x",
                   "y", "z" >>
UpperLetters == << "A", "B", "C", "D", "E", "F", "G", "H", "I", "J", "K", "L",
                   "M", "N", "O", "P", "Q", "R", "S", "T", "U", "V", "W", "X",
                   "Y", "Z" >>

LowerChar(c) ==
    IF \E i \in 1..Len(UpperLetters) : UpperLetters[i] = c
    THEN LowerLetters[CHOOSE i \in 1..Len(UpperLetters) : UpperLetters[i] = c]
    ELSE c

UpperChar(c) ==
    IF \E i \in 1..Len(LowerLetters) : LowerLetters[i] = c
    THEN UpperLetters[CHOOSE i \in 1..Len(LowerLetters) : LowerLetters[i] = c]
    ELSE c

\* str.lower() without the character map: the text is left as it is
LowerIdentity(s) == s

\* str.lower()
Lower(s) == [i \in 1..Len(s) |-> LowerChar(s[i])]

\* str.capitalize(): first character upper case, the rest lower case
Capitalize(s) ==
    [i \in 1..Len(s) |-> IF i = 1 THEN UpperChar(s[i]) ELSE LowerChar(s[i])]

RECURSIVE JoinDistinct(_)
\* ','.join(dict.fromkeys(keys)): a key that comes again is dropped
JoinDistinct(keys) ==
    IF Len(keys) = 0 THEN << >>
    ELSE LET k == keys[Len(keys)]
             front == SubSeq(keys, 1, Len(keys) - 1)
             joined == JoinDistinct(front)
         IN  IF \E i \in 1..Len(front) : front[i] = k THEN joined
             ELSE IF Len(joined) = 0 THEN << k >>
             ELSE joined \o << ",", k >>

RECURSIVE Join(_)
\* ','.join(keys): the keys in order, a comma between neighbours
Join(keys) ==
    IF Len(keys) = 0 THEN << >>
    ELSE IF Len(keys) = 1 THEN << keys[1] >>
    ELSE << keys[1], "," >> \o Join(Tail(keys))

-----------------------------------------------------------------------------
(* Module constants of weather.py                                          *)

Moscow == << "m", "o", "s", "c", "o", "w" >>

\* CITY_COORD: coordinates in millionths of a degree
CITY_COORD == [k \in {Moscow} |-> << 55751244, 37618423 >>]

\* PARAM_CURRENT_DEFAULT: (provider key, title); titles are transliterated
PARAM_CURRENT_DEFAULT ==
    << << "temperature_2m",
          << "t", "e", "m", "p", "e", "r", "a", "t", "u", "r", "a" >> >>,
       << "relative_humidity_2m",
          << "v", "l", "a", "z", "h", "n", "o", "s", "t" >> >>,
       << "pressure_msl",
          << "d", "a", "v", "l", "e", "n", "i", "e" >> >> >>

\* Optional[...]: None, or a value
None == [none |-> TRUE]
Some(v) == [none |-> FALSE, val |-> v]

\* exceptions: type, the function that raised it, and the text it carries
NoExc == [type |-> "none", site |-> "", arg |-> << >>]
Exc(type, site, arg) == [type |-> type, site |-> site, arg |-> arg]

-----------------------------------------------------------------------------
(* JSON values and HTTP responses                                          *)

JNull == [tag |-> "null"]
JNum(n) == [tag |-> "number", val |-> n]
JStr(s) == [tag |-> "string", val |-> s]
JObj(f) == [tag |-> "object", map |-> f]

\* the test written `not obj.get(key)`: an empty mapping fails it as a
\* missing or null value does
GetIsNoneFalsy(obj, key) ==
    \/ key \notin DOMAIN obj.map
    \/ obj.map[key] = JNull
    \/ obj.map[key].tag = "object" /\ DOMAIN obj.map[key].map = {}

\* dict.get(key) is None, on a parsed JSON object
GetIsNone(obj, key) == key \notin DOMAIN obj.map \/ obj.map[key] = JNull

\* the values the provider reports for a metric key
ValueOf(key) ==
    CASE key = "temperature_2m" -> JNum(5)
      [] key = "relative_humidity_2m" -> JNum(80)
      [] OTHER -> JNum(1013)
UnitOf(key) ==
    CASE key = "temperature_2m" -> JStr("C")
      [] key = "relative_humidity_2m" -> JStr("%")
      [] OTHER -> JStr("hPa")

MetricKeys == { PARAM_CURRENT_DEFAULT[i][1] : i \in 1..Len(PARAM_CURRENT_DEFAULT) }

\* a `current` / `current_units` section holding the keys ks
CurrentSection(ks) == JObj([k \in ks |-> ValueOf(k)])
UnitsSection(ks) == JObj([k \in ks |-> UnitOf(k)])

\* a section that the payload does not hold
Absent == [tag |-> "absent"]

\* a payload object with the given sections (Absent: the key is left out)
Payload(cur, units) ==
    JObj([k \in {s \in {"current", "current_units"} :
                    (IF s = "current" THEN cur ELSE units) # Absent}
          |-> IF k = "current" THEN cur ELSE units])

\* a response: the status is a success or not, the body parses or not
Response(ok, body) == [ok |-> ok, body |-> body]
Unparseable == [parses |-> FALSE]
Parsed(json) == [parses |-> TRUE, json |-> json]

\* the outcome of one `await client.get(...)`: a response, or the call raised
Received(r) == [got |-> TRUE, response |-> r]
GetRaised == [got |-> FALSE]

\* locals that are not bound yet
NoParams == [latitude |-> 0, longitude |-> 0, current |-> << >>]
NoResponse == Response(FALSE, Unparseable)

-----------------------------------------------------------------------------
(* Console lines and observable events                                     *)

\* the diagnostics printed at lines 97 ({e}) and 99 ({e.msg})
ErrorLine(what) == [kind |-> "error", what |-> what]
\* line 129
HeaderLine(name) == [kind |-> "header", city |-> name]
\* lines 134-136
ValueLine(label, value, unit) ==
    [kind |-> "value", label |-> label, value |-> value, unit |-> unit]
\* line 138
MissingLine(key) == [kind |-> "missing", key |-> key]

EvGet(p) == [ev |-> "get", params |-> p]
EvPrint(line) == [ev |-> "print", line |-> line]
EvSleep(sec) == [ev |-> "sleep", sec |-> sec]

-----------------------------------------------------------------------------
(* weather(), lines 35-42: normalise the city, default the metrics, look   *)
(* the city up.  The KeyError is formatted from the rebound local `city`.  *)

\* weather() testing `if not param_current`: an empty set is taken for a
\* missing one and replaced by the default
ResolveDefaultsWhenEmpty ==
    /\ pc = "resolve"
    /\ city' = Lower(city_arg)
    /\ param_current' = IF param_arg = None \/ param_arg.val = << >>
                        THEN PARAM_CURRENT_DEFAULT
                        ELSE param_arg.val
    /\ IF Lower(city_arg) \notin DOMAIN CITY_COORD
       THEN /\ raised' = Exc("KeyError", "weather", Lower(city_arg))
            /\ pc' = "raised"
       ELSE /\ raised' = raised
            /\ pc' = "fetch"
    /\ UNCHANGED << city_arg, interval_sec, param_arg, params, repeat_fetch,
                    response, data_weather, cycle, attempts, events >>

\* weather() without the check of lines 41-42
ResolveUnchecked ==
    /\ pc = "resolve"
    /\ city' = Lower(city_arg)
    /\ param_current' = IF param_arg = None THEN PARAM_CURRENT_DEFAULT
                                            ELSE param_arg.val
    /\ pc' = "fetch"
    /\ UNCHANGED << city_arg, interval_sec, param_arg, params, repeat_fetch,
                    response, data_weather, raised, cycle, attempts, events >>

Resolve ==
    /\ pc = "resolve"
    /\ city' = Lower(city_arg)
    /\ param_current' = IF param_arg = None THEN PARAM_CURRENT_DEFAULT
                                            ELSE param_arg.val
    /\ IF Lower(city_arg) \notin DOMAIN CITY_COORD
       THEN /\ raised' = Exc("KeyError", "weather", Lower(city_arg))
            /\ pc' = "raised"
       ELSE /\ raised' = raised
            /\ pc' = "fetch"
    /\ UNCHANGED << city_arg, interval_sec, param_arg, params, repeat_fetch,
                    response, data_weather, cycle, attempts, events >>

-----------------------------------------------------------------------------
(* fetch_api()                                                             *)

\* the retry cap of `while repeat_fetch < 5`, line 84
RetryLimit == 5
\* the delay of `await asyncio.sleep(3)`, line 101
RetryDelay == 3

\* lines 78-82
BuildParams(city_coord, metrics) ==
    [latitude |-> city_coord[1],
     longitude |-> city_coord[2],
     current |-> Join([i \in 1..Len(metrics) |-> metrics[i][1]])]

\* weather() line 51 calls fetch_api; lines 78-83 run up to the loop head.
\* A new iteration of weather()'s loop starts here: the log starts afresh.
\* fetch_api with `repeat_fetch` kept outside the function: line 83 does not
\* run again and the count of an earlier call is carried into the next
CallFetchKeepsCount ==
    /\ pc = "fetch"
    /\ attempts' = << >>
    /\ events' = << >>
    /\ params' = BuildParams(CITY_COORD[city], param_current)
    /\ pc' = "while"
    /\ UNCHANGED << city_arg, city, interval_sec, param_arg, param_current,
                    repeat_fetch, response, data_weather, raised, cycle >>

\* CITY_COORD[city] of line 52 raises KeyError for a key the table lacks.
CallFetch ==
    /\ pc = "fetch"
    /\ attempts' = << >>
    /\ events' = << >>
    /\ IF city \in DOMAIN CITY_COORD
       THEN /\ params' = BuildParams(CITY_COORD[city], param_current)
            /\ repeat_fetch' = 0
            /\ raised' = raised
            /\ pc' = "while"
       ELSE /\ raised' = Exc("KeyError", "weather", city)
            /\ pc' = "raised"
            /\ UNCHANGED << params, repeat_fetch >>
    /\ UNCHANGED << city_arg, city, interval_sec, param_arg, param_current,
                    response, data_weather, cycle >>

\* the loop condition written `repeat_fetch <= 5`
LoopCondOffByOne(n) == n <= RetryLimit

\* the loop condition of line 84
LoopCond(n) == n < RetryLimit

\* line 84, condition true: enter the body
WhileEnter ==
    /\ pc = "while"
    /\ LoopCond(repeat_fetch)
    /\ pc' = "get"
    /\ UNCHANGED << city_arg, city, interval_sec, param_arg, param_current,
                    params, repeat_fetch, response, data_weather, raised,
                    cycle, attempts, events >>

\* fetch_api without line 104: the function falls off its end, returns None,
\* and weather() goes on to print_weather
RaiseExhaustedReturnsNone ==
    /\ pc = "while"
    /\ ~LoopCond(repeat_fetch)
    /\ data_weather' = JNull
    /\ pc' = "print"
    /\ UNCHANGED << city_arg, city, interval_sec, param_arg, param_current,
                    params, repeat_fetch, response, raised, cycle, attempts,
                    events >>

\* weather() catching the ValueError of line 104 and moving on to the
\* interval sleep: the iteration is skipped
RaiseExhaustedSkipsCycle ==
    /\ pc = "while"
    /\ ~LoopCond(repeat_fetch)
    /\ pc' = "sleep"
    /\ UNCHANGED << city_arg, city, interval_sec, param_arg, param_current,
                    params, repeat_fetch, response, data_weather, raised,
                    cycle, attempts, events >>

\* line 84, condition false, then line 104: ValueError leaves fetch_api and,
\* uncaught in weather(), ends the run
RaiseExhausted ==
    /\ pc = "while"
    /\ ~LoopCond(repeat_fetch)
    /\ raised' = Exc("ValueError", "fetch_api", << >>)
    /\ pc' = "raised"
    /\ UNCHANGED << city_arg, city, interval_sec, param_arg, param_current,
                    params, repeat_fetch, response, data_weather, cycle,
                    attempts, events >>

\* the responses the provider gives in the model
FullPayload == Payload(CurrentSection(MetricKeys), UnitsSection(MetricKeys))
PartialPayload ==
    Payload(CurrentSection(MetricKeys \ {"relative_humidity_2m"}),
            UnitsSection(MetricKeys \ {"pressure_msl"}))
PollerPayloads ==
    { FullPayload, PartialPayload,
      Payload(CurrentSection(MetricKeys), Absent),
      Payload(JNull, UnitsSection(MetricKeys)),
      Payload(CurrentSection(MetricKeys), JNum(1)),
      JNum(0) }
Responses ==
    { Response(FALSE, Unparseable), Response(FALSE, Parsed(FullPayload)),
      Response(TRUE, Unparseable) }
        \cup { Response(TRUE, Parsed(j)) : j \in PollerPayloads }

\* line 89: the request is issued; it answers, or raises httpx.HTTPError
\* (a transport error), which no handler of fetch_api or weather() encloses
Get ==
    /\ pc = "get"
    /\ events' = Append(events, EvGet(params))
    /\ \/ /\ attempts' = Append(attempts, GetRaised)
          /\ raised' = Exc("HTTPError", "fetch_api", << >>)
          /\ pc' = "raised"
          /\ response' = response
       \/ \E r \in Responses :
            /\ attempts' = Append(attempts, Received(r))
            /\ response' = r
            /\ raised' = raised
            /\ pc' = "try"
    /\ UNCHANGED << city_arg, city, interval_sec, param_arg, param_current,
                    params, repeat_fetch, data_weather, cycle >>

\* fetch_api with a silent `except JSONDecodeError`: the attempt is counted
\* and delayed but nothing is printed for it
TrySilentDecode ==
    /\ pc = "try"
    /\ IF ~response.ok
       THEN /\ events' = Append(events, EvPrint(ErrorLine("status")))
            /\ pc' = "retry_sleep"
            /\ data_weather' = data_weather
       ELSE IF ~response.body.parses
       THEN /\ events' = events
            /\ pc' = "retry_sleep"
            /\ data_weather' = data_weather
       ELSE /\ events' = events
            /\ pc' = "print"
            /\ data_weather' = response.body.json
    /\ UNCHANGED << city_arg, city, interval_sec, param_arg, param_current,
                    params, repeat_fetch, response, raised, cycle, attempts >>

\* fetch_api checking the sections of the parsed payload before it returns
\* and treating a payload without them as one more failed attempt
TryValidates ==
    /\ pc = "try"
    /\ IF ~response.ok
       THEN /\ events' = Append(events, EvPrint(ErrorLine("status")))
            /\ pc' = "retry_sleep"
            /\ data_weather' = data_weather
       ELSE IF \/ ~response.body.parses
               \/ /\ response.body.json.tag = "object"
                  /\ \/ GetIsNone(response.body.json, "current")
                     \/ GetIsNone(response.body.json, "current_units")
       THEN /\ events' = Append(events, EvPrint(ErrorLine("decode")))
            /\ pc' = "retry_sleep"
            /\ data_weather' = data_weather
       ELSE /\ events' = events
            /\ pc' = "print"
            /\ data_weather' = response.body.json
    /\ UNCHANGED << city_arg, city, interval_sec, param_arg, param_current,
                    params, repeat_fetch, response, raised, cycle, attempts >>

\* lines 92-99: raise_for_status(), json(), return; or a diagnostic
Try ==
    /\ pc = "try"
    /\ IF ~response.ok
       THEN /\ events' = Append(events, EvPrint(ErrorLine("status")))
            /\ pc' = "retry_sleep"
            /\ data_weather' = data_weather
       ELSE IF ~response.body.parses
       THEN /\ events' = Append(events, EvPrint(ErrorLine("decode")))
            /\ pc' = "retry_sleep"
            /\ data_weather' = data_weather
       ELSE /\ events' = events
            /\ pc' = "print"
            /\ data_weather' = response.body.json
    /\ UNCHANGED << city_arg, city, interval_sec, param_arg, param_current,
                    params, repeat_fetch, response, raised, cycle, attempts >>

\* lines 101-102
RetrySleep ==
    /\ pc = "retry_sleep"
    /\ events' = Append(events, EvSleep(RetryDelay))
    /\ repeat_fetch' = repeat_fetch + 1
    /\ pc' = "while"
    /\ UNCHANGED << city_arg, city, interval_sec, param_arg, param_current,
                    params, response, data_weather, raised, cycle, attempts >>

-----------------------------------------------------------------------------
(* print_weather()                                                         *)

\* section[key] on a parsed JSON value: the value, KeyError, or TypeError
\* when the value is no mapping
Subscript(section, key) ==
    IF section.tag # "object" THEN [exc |-> "TypeError"]
    ELSE IF key \notin DOMAIN section.map THEN [exc |-> "KeyError"]
    ELSE [exc |-> "none", val |-> section.map[key]]

\* lines 131-138, one metric: the line printed, and the exception that
\* leaves the loop body if any
PrintMetric(data, param) ==
    LET c == Subscript(data.map["current"], param[1])
        u == Subscript(data.map["current_units"], param[1])
        first == IF c.exc # "none" THEN c.exc ELSE u.exc
    IN  CASE first = "none" ->
                [lines |-> << ValueLine(Capitalize(param[2]), c.val, u.val) >>,
                 exc |-> NoExc]
          [] first = "KeyError" ->
                [lines |-> << MissingLine(param[1]) >>, exc |-> NoExc]
          [] OTHER ->
                [lines |-> << >>,
                 exc |-> Exc("TypeError", "print_weather", << >>)]

RECURSIVE PrintMetricsStopAtMissing(_, _)
\* the loop of line 130 with the try/except around the whole loop: the
\* first missing key ends it
PrintMetricsStopAtMissing(data, metrics) ==
    IF Len(metrics) = 0 THEN [lines |-> << >>, exc |-> NoExc]
    ELSE LET r == PrintMetric(data, Head(metrics))
         IN  IF r.exc # NoExc \/ r.lines[1].kind = "missing" THEN r
             ELSE LET rest == PrintMetricsStopAtMissing(data, Tail(metrics))
                  IN  [lines |-> r.lines \o rest.lines, exc |-> rest.exc]

RECURSIVE PrintMetrics(_, _)
\* the loop of line 130 over the metrics, stopping at an exception
PrintMetrics(data, metrics) ==
    IF Len(metrics) = 0 THEN [lines |-> << >>, exc |-> NoExc]
    ELSE LET r == PrintMetric(data, Head(metrics))
         IN  IF r.exc # NoExc THEN r
             ELSE LET rest == PrintMetrics(data, Tail(metrics))
                  IN  [lines |-> r.lines \o rest.lines, exc |-> rest.exc]

\* line 122: the structural check
SectionsMissing(data) ==
    GetIsNone(data, "current") \/ GetIsNone(data, "current_units")

\* print_weather with the header of line 129 printed before the check of
\* line 122
PrintWeatherHeaderFirst(city_name, data, metrics) ==
    IF data.tag # "object"
    THEN [lines |-> << >>,
          exc |-> Exc("AttributeError", "print_weather", << >>)]
    ELSE IF SectionsMissing(data)
    THEN [lines |-> << HeaderLine(city_name) >>,
          exc |-> Exc("KeyError", "print_weather", << >>)]
    ELSE LET r == PrintMetrics(data, metrics)
         IN  [lines |-> << HeaderLine(city_name) >> \o r.lines, exc |-> r.exc]

\* lines 118-138: the lines printed and the exception raised, if any
\* (122-123 the check, 125-126 the two subscripts, 129-138 the output)
PrintWeather(city_name, data, metrics) ==
    IF data.tag # "object"
    THEN [lines |-> << >>,
          exc |-> Exc("AttributeError", "print_weather", << >>)]
    ELSE IF SectionsMissing(data)
    THEN [lines |-> << >>, exc |-> Exc("KeyError", "print_weather", << >>)]
    ELSE IF Subscript(data, "current").exc # "none"
            \/ Subscript(data, "current_units").exc # "none"
    THEN [lines |-> << >>, exc |-> Exc("KeyError", "print_weather", << >>)]
    ELSE LET r == PrintMetrics(data, metrics)
         IN  [lines |-> << HeaderLine(city_name) >> \o r.lines, exc |-> r.exc]

\* weather() with print_weather's exceptions caught and the loop continued
PrintWeatherStepSwallows ==
    /\ pc = "print"
    /\ LET r == PrintWeather(Capitalize(city), data_weather, param_current)
       IN  /\ events' = events \o [i \in 1..Len(r.lines) |-> EvPrint(r.lines[i])]
           /\ raised' = r.exc
           /\ pc' = "sleep"
    /\ UNCHANGED << city_arg, city, interval_sec, param_arg, param_current,
                    params, repeat_fetch, response, data_weather, cycle,
                    attempts >>

\* print_weather consuming the metric set it walks: the caller is left
\* with the set less its first entry
PrintWeatherStepConsumes ==
    /\ pc = "print"
    /\ LET r == PrintWeather(Capitalize(city), data_weather, param_current)
       IN  /\ events' = events \o [i \in 1..Len(r.lines) |-> EvPrint(r.lines[i])]
           /\ raised' = r.exc
           /\ pc' = IF r.exc # NoExc THEN "raised" ELSE "sleep"
    /\ param_current' = IF param_current = << >> THEN << >>
                                                 ELSE Tail(param_current)
    /\ UNCHANGED << city_arg, city, interval_sec, param_arg,
                    params, repeat_fetch, response, data_weather, cycle,
                    attempts >>

\* weather() line 56: print_weather(city.capitalize(), ...); an exception
\* of print_weather is not caught in weather() and ends the run
PrintWeatherStep ==
    /\ pc = "print"
    /\ LET r == PrintWeather(Capitalize(city), data_weather, param_current)
       IN  /\ events' = events \o [i \in 1..Len(r.lines) |-> EvPrint(r.lines[i])]
           /\ raised' = r.exc
           /\ pc' = IF r.exc # NoExc THEN "raised" ELSE "sleep"
    /\ UNCHANGED << city_arg, city, interval_sec, param_arg, param_current,
                    params, repeat_fetch, response, data_weather, cycle,
                    attempts >>

\* weather() without line 58: the loop goes straight back to its head
IntervalSleepSkipped ==
    /\ pc = "sleep"
    /\ cycle' = cycle + 1
    /\ pc' = "fetch"
    /\ UNCHANGED << city_arg, city, interval_sec, param_arg, param_current,
                    params, repeat_fetch, response, data_weather, raised,
                    attempts, events >>

\* weather() sleeping for what is left of the interval after the retry
\* delays of the iteration
IntervalSleepLessRetries ==
    /\ pc = "sleep"
    /\ events' = Append(events,
                        EvSleep(interval_sec - RetryDelay * repeat_fetch))
    /\ cycle' = cycle + 1
    /\ pc' = "fetch"
    /\ UNCHANGED << city_arg, city, interval_sec, param_arg, param_current,
                    params, repeat_fetch, response, data_weather, raised,
                    attempts >>

\* weather() leaving its loop after the sleep of line 58, as with a `break`
IntervalSleepReturns ==
    /\ pc = "sleep"
    /\ events' = Append(events, EvSleep(interval_sec))
    /\ cycle' = cycle
    /\ pc' = "returned"
    /\ UNCHANGED << city_arg, city, interval_sec, param_arg, param_current,
                    params, repeat_fetch, response, data_weather, raised,
                    attempts >>

\* the count of completed iterations is an observation, not a variable of
\* the program: it is kept up to MaxCycles and stays there
CountCycle(c) == IF c < MaxCycles THEN c + 1 ELSE c

\* weather() line 58, then back to the loop head
IntervalSleep ==
    /\ pc = "sleep"
    /\ events' = Append(events, EvSleep(interval_sec))
    /\ cycle' = CountCycle(cycle)
    /\ pc' = "fetch"
    /\ UNCHANGED << city_arg, city, interval_sec, param_arg, param_current,
                    params, repeat_fetch, response, data_weather, raised,
                    attempts >>

-----------------------------------------------------------------------------
(* The run of main.py generalised over weather()'s arguments               *)

Atlantis == << "a", "t", "l", "a", "n", "t", "i", "s" >>
Wind == << "wind_speed_10m", << "w", "I", "N", "D" >> >>

PollerCities == { Moscow, Capitalize(Moscow), Atlantis, Capitalize(Atlantis) }
PollerMetricSpecs ==
    { None, Some(<< >>),
      Some(<< PARAM_CURRENT_DEFAULT[3], Wind, PARAM_CURRENT_DEFAULT[3] >>) }

Init ==
    /\ city_arg \in PollerCities
    /\ city = city_arg
    /\ interval_sec \in 0..MaxInterval
    /\ param_arg \in PollerMetricSpecs
    /\ param_current = << >>
    /\ pc = "resolve"
    /\ params = NoParams
    /\ repeat_fetch = 0
    /\ response = NoResponse
    /\ data_weather = JNull
    /\ raised = NoExc
    /\ cycle = 0
    /\ attempts = << >>
    /\ events = << >>

\* the loop of line 46 is explored for MaxCycles iterations
StartCycle == cycle < MaxCycles /\ CallFetch

Next ==
    \/ Resolve
    \/ StartCycle
    \/ WhileEnter
    \/ RaiseExhausted
    \/ Get
    \/ Try
    \/ RetrySleep
    \/ PrintWeatherStep
    \/ IntervalSleep

Spec == Init /\ [][Next]_vars

-----------------------------------------------------------------------------
(* The unbounded run: the loop of line 46 is not cut off.  The single task *)
(* is resumed by the event loop whenever it can take a step (a GET answers *)
(* or raises, a sleep ends), hence the weak fairness of its next step.     *)

InitLive ==
    /\ city_arg \in PollerCities
    /\ city = city_arg
    /\ interval_sec = MaxInterval
    /\ param_arg \in PollerMetricSpecs
    /\ param_current = << >>
    /\ pc = "resolve"
    /\ params = NoParams
    /\ repeat_fetch = 0
    /\ response = NoResponse
    /\ data_weather = JNull
    /\ raised = NoExc
    /\ cycle = 0
    /\ attempts = << >>
    /\ events = << >>

NextLive ==
    \/ Resolve
    \/ CallFetch
    \/ WhileEnter
    \/ RaiseExhausted
    \/ Get
    \/ Try
    \/ RetrySleep
    \/ PrintWeatherStep
    \/ IntervalSleep

SpecLive == InitLive /\ [][NextLive]_vars /\ WF_vars(NextLive)

-----------------------------------------------------------------------------
(* The city lookup of weather() on many spellings of the city              *)

\* the spellings of w in upper and lower case
CaseVariants(w) ==
    { [i \in 1..Len(w) |-> IF i \in U THEN UpperChar(w[i]) ELSE w[i]] :
        U \in SUBSET (1..Len(w)) }

ResolveCities ==
    CaseVariants(Moscow) \cup CaseVariants(SubSeq(Moscow, 1, 5))
        \cup CaseVariants(Moscow \o << " " >>) \cup CaseVariants(Atlantis)
        \cup { << >> }

InitResolve ==
    /\ city_arg \in ResolveCities
    /\ city = city_arg
    /\ interval_sec = MaxInterval
    /\ param_arg = None
    /\ param_current = << >>
    /\ pc = "resolve"
    /\ params = NoParams
    /\ repeat_fetch = 0
    /\ response = NoResponse
    /\ data_weather = JNull
    /\ raised = NoExc
    /\ cycle = 0
    /\ attempts = << >>
    /\ events = << >>

NextResolve ==
    \/ Resolve
    \/ StartCycle

SpecResolve == InitResolve /\ [][NextResolve]_vars

-----------------------------------------------------------------------------
(* print_weather() on many payloads and metric sets: the task stands at    *)
(* line 56 of the first iteration, the payload came with the first GET     *)

MetricPool ==
    { PARAM_CURRENT_DEFAULT[i] : i \in 1..Len(PARAM_CURRENT_DEFAULT) }
        \cup { Wind }
MetricSpecs == UNION { [1..n -> MetricPool] : n \in 0..MaxMetrics }

PresentPayloads ==
    { Payload(c, u) :
        c \in { Absent, JNull, JNum(1) }
                \cup { CurrentSection(ks) : ks \in SUBSET MetricKeys },
        u \in { Absent, JNull, JNum(1) }
                \cup { UnitsSection(ks) : ks \in SUBSET MetricKeys } }
        \cup { JNum(0) }

InitPresent ==
    /\ city_arg = Capitalize(Moscow)
    /\ city = Moscow
    /\ interval_sec = MaxInterval
    /\ param_current \in MetricSpecs
    /\ param_arg = Some(param_current)
    /\ pc = "print"
    /\ params = BuildParams(CITY_COORD[Moscow], param_current)
    /\ repeat_fetch = 0
    /\ data_weather \in PresentPayloads
    /\ response = Response(TRUE, Parsed(data_weather))
    /\ raised = NoExc
    /\ cycle = 0
    /\ attempts = << Received(response) >>
    /\ events = << EvGet(params) >>

NextPresent ==
    \/ PrintWeatherStep
    \/ IntervalSleep

SpecPresent == InitPresent /\ [][NextPresent]_vars

-----------------------------------------------------------------------------
(* One call of fetch_api() for every metric set up to MaxMetrics entries:  *)
(* the task stands at line 51 of the first iteration                       *)

InitFetch ==
    /\ city_arg = Capitalize(Moscow)
    /\ city = Moscow
    /\ interval_sec = MaxInterval
    /\ param_current \in MetricSpecs
    /\ param_arg = Some(param_current)
    /\ pc = "fetch"
    /\ params = NoParams
    /\ repeat_fetch = 0
    /\ response = NoResponse
    /\ data_weather = JNull
    /\ raised = NoExc
    /\ cycle = 0
    /\ attempts = << >>
    /\ events = << >>

NextFetch ==
    \/ CallFetch
    \/ WhileEnter
    \/ RaiseExhausted
    \/ Get
    \/ Try
    \/ RetrySleep

SpecFetch == InitFetch /\ [][NextFetch]_vars

-----------------------------------------------------------------------------
(* Vocabulary of the properties                                            *)

IsGet(e) == e.ev = "get"
IsSleep(e) == e.ev = "sleep"
IsPrint(e) == e.ev = "print"
IsDiagnostic(e) == e.ev = "print" /\ e.line.kind = "error"
IsPresented(e) == e.ev = "print" /\ e.line.kind \in {"header", "value", "missing"}

NGets == Len(SelectSeq(events, IsGet))
NSleeps == Len(SelectSeq(events, IsSleep))
NDiagnostics == Len(SelectSeq(events, IsDiagnostic))
NPresented == Len(SelectSeq(events, IsPresented))

\* an attempt that got a success status and a body that parses
Succeeded(o) == o.got /\ o.response.ok /\ o.response.body.parses
\* an attempt answered with a non-success status or an undecodable body
Failed(o) == o.got /\ (~o.response.ok \/ ~o.response.body.parses)

\* the task is inside fetch_api
InFetch == pc \in {"while", "get", "try", "retry_sleep"}
\* five attempts of the current fetch_api call were answered, each a failure
FiveFailures ==
    Len(attempts) = 5 /\ \A k \in 1..5 : Failed(attempts[k])

ValueErrorOfFetch == Exc("ValueError", "fetch_api", << >>)
KeyErrorOfPrint == Exc("KeyError", "print_weather", << >>)

\* s is key up to the case of its letters
IsCaseVariant(s, key) ==
    /\ Len(s) = Len(key)
    /\ \A i \in 1..Len(key) : s[i] = key[i] \/ s[i] = UpperChar(key[i])
\* the city given to weather() names an entry of the location table
CityKnown == \E key \in DOMAIN CITY_COORD : IsCaseVariant(city_arg, key)

-----------------------------------------------------------------------------
(* Properties                                                              *)

\* C1: one fetch_api call issues at most 5 GETs; when the k-th attempt is the
\* first to succeed, exactly k GETs are issued and the value returned to
\* weather() is the payload parsed from the k-th response.
C1_FirstSuccessReturned ==
    /\ NGets <= 5
    /\ Len(attempts) <= 5
    /\ \A k \in 1..Len(attempts) :
          Succeeded(attempts[k]) =>
            /\ k = Len(attempts)
            /\ NGets = k
            /\ \A j \in 1..(k - 1) : Failed(attempts[j])
            /\ pc \in {"try", "print", "sleep", "fetch", "raised"}
            /\ pc # "try" => data_weather = attempts[k].response.body.json

\* C1 witness: the fifth attempt is the first to succeed and its payload is
\* back in weather()
C1_Witness ==
    /\ pc = "print"
    /\ Len(attempts) = 5
    /\ Succeeded(attempts[5])
    /\ \A j \in 1..4 : Failed(attempts[j])
    /\ data_weather = PartialPayload
    /\ NGets = 5

\* C2: after 5 consecutive failed attempts fetch_api raises ValueError
\* (FetchExhausted): the task is still handling the fifth failure, or is at
\* the loop head where only the raise is possible, or has raised; it never
\* issues a 6th GET and never returns a value.
C2_ExhaustedAfterFive ==
    FiveFailures =>
        /\ NGets = 5
        /\ pc \in {"try", "retry_sleep", "while", "raised"}
        /\ pc = "while" => ENABLED RaiseExhausted /\ ~ENABLED WhileEnter
        /\ pc = "raised" => raised = ValueErrorOfFetch

\* C2 witness: five failures of both kinds, and the ValueError is out
C2_Witness ==
    /\ FiveFailures
    /\ raised = ValueErrorOfFetch
    /\ ~attempts[1].response.ok
    /\ attempts[5].response.ok
    /\ NGets = 5

\* C3 (as claimed): a 3-unit delay is taken only when another attempt
\* follows it: a fetch whose 5 attempts all fail has taken exactly 4 delays
\* when it raises, the last thing before the raise is not a delay, and no
\* delay follows a successful attempt.
C3_DelayOnlyBetweenAttempts ==
    /\ InFetch \/ raised = ValueErrorOfFetch =>
          \A i \in 1..Len(events) : IsSleep(events[i]) => events[i].sec = 3
    /\ raised = ValueErrorOfFetch =>
          /\ NSleeps = 4
          /\ ~IsSleep(events[Len(events)])
    /\ pc = "print" => NSleeps = NGets - 1

\* C4 (as claimed): a failure of one attempt, the GET itself raising
\* included, never leaves fetch_api before all 5 attempts have failed.
C4_AttemptFailuresAbsorbed ==
    raised.site = "fetch_api" =>
        /\ Len(attempts) = 5
        /\ raised = ValueErrorOfFetch

\* C5 (as claimed): a payload without `current` or `current_units` does not
\* terminate the poller.
C5_MalformedNotFatal ==
    ~(pc = "raised" /\ raised = KeyErrorOfPrint)

\* C5 (amended): the KeyError of print_weather's structural check ends the
\* run: nothing of the payload is printed, the interval sleep is not taken
\* and no further step (no further fetch) is possible.
C5_MalformedIsFatal ==
    /\ raised = KeyErrorOfPrint =>
          /\ pc = "raised"
          /\ ~ENABLED Next
          /\ NPresented = 0
          /\ NSleeps = NGets - 1
    /\ (~InFetch /\ pc # "fetch" /\ pc # "resolve" /\ pc # "print"
          /\ data_weather.tag = "object" /\ SectionsMissing(data_weather))
          => raised = KeyErrorOfPrint

\* C5 witness: the payload without current_units arrived at the second
\* attempt of the second iteration and ended the run
C5_Witness ==
    /\ pc = "raised"
    /\ raised = KeyErrorOfPrint
    /\ cycle = 1
    /\ Len(attempts) = 2
    /\ data_weather = Payload(CurrentSection(MetricKeys), Absent)

\* C6: once fetch_api has used up its 5 attempts the run is over: the
\* ValueError has left weather(), no step is possible any more (no GET, no
\* print, no sleep), nothing was presented and the only sleeps taken in the
\* iteration are those of the retry loop.
C6_ExhaustedIsFatal ==
    (FiveFailures /\ ~InFetch) =>
        /\ pc = "raised"
        /\ raised = ValueErrorOfFetch
        /\ ~ENABLED Next
        /\ NGets = 5
        /\ NPresented = 0
        /\ NSleeps = NDiagnostics

\* C6 witness: the exhaustion happens in the second iteration
C6_Witness ==
    /\ FiveFailures
    /\ pc = "raised"
    /\ raised = ValueErrorOfFetch
    /\ cycle = 1

\* C10: with a city the table lacks, weather() raises KeyError at once: no
\* GET, no console line, no sleep, the loop is not entered, and nothing
\* further happens.
C10_UnknownCityFailsFirst ==
    ~CityKnown =>
        /\ events = << >>
        /\ attempts = << >>
        /\ cycle = 0
        /\ pc \in {"resolve", "raised"}
        /\ pc = "raised" =>
              /\ raised.type = "KeyError" /\ raised.site = "weather"
              /\ ~ENABLED Next

\* C10 witness: "Atlantis" was looked up and refused
C10_Witness ==
    /\ city_arg = Capitalize(Atlantis)
    /\ pc = "raised"
    /\ raised.type = "KeyError"
    /\ events = << >>

\* the payload is a mapping that lacks `current` or `current_units`
LacksSection(d) ==
    /\ d.tag = "object"
    /\ "current" \notin DOMAIN d.map \/ "current_units" \notin DOMAIN d.map

\* the payload holds both sections, each a mapping
StructurallyValid(d) ==
    /\ d.tag = "object"
    /\ "current" \in DOMAIN d.map /\ d.map["current"].tag = "object"
    /\ "current_units" \in DOMAIN d.map
    /\ d.map["current_units"].tag = "object"

\* the console lines of the current iteration, in order
Printed == SelectSeq(events, IsPrint)

\* the line owed to one MetricSpec entry by a valid payload
ExpectedLine(d, m) ==
    IF /\ m[1] \in DOMAIN d.map["current"].map
       /\ m[1] \in DOMAIN d.map["current_units"].map
    THEN ValueLine(Capitalize(m[2]), d.map["current"].map[m[1]],
                   d.map["current_units"].map[m[1]])
    ELSE MissingLine(m[1])

\* C7: print_weather on a payload that lacks `current` or `current_units`
\* raises KeyError (MalformedPayload) and prints nothing: no header, no
\* value line, no per-metric diagnostic.
C7_MalformedPrintsNothing ==
    (pc # "print" /\ LacksSection(data_weather)) =>
        /\ pc = "raised"
        /\ raised = KeyErrorOfPrint
        /\ Printed = << >>

\* C7 witness: a payload with units but no `current`, two metrics asked
C7_Witness ==
    /\ pc = "raised"
    /\ data_weather = Payload(Absent, UnitsSection(MetricKeys))
    /\ Len(param_current) = 2
    /\ raised = KeyErrorOfPrint

\* C8: on a structurally valid payload print_weather does not fail and
\* prints the header, then one line per MetricSpec entry in MetricSpec
\* order: the value line of the entry when its key is in both sections,
\* the diagnostic naming the key otherwise.
C8_OneLinePerMetric ==
    (pc # "print" /\ StructurallyValid(data_weather)) =>
        /\ raised = NoExc
        /\ pc \in {"sleep", "fetch"}
        /\ Len(Printed) = Len(param_current) + 1
        /\ Printed[1].line = HeaderLine(<< "M", "o", "s", "c", "o", "w" >>)
        /\ \A i \in 1..Len(param_current) :
              Printed[i + 1].line = ExpectedLine(data_weather, param_current[i])

\* C8 witness: the first metric is missing from the payload, the second is
\* there, and both lines were printed
C8_Witness ==
    /\ pc = "sleep"
    /\ StructurallyValid(data_weather)
    /\ Len(param_current) = 2
    /\ Len(Printed) = 3
    /\ Printed[2].line.kind = "missing"
    /\ Printed[3].line.kind = "value"

\* the text has no upper-case letter
NoUpperCase(s) ==
    \A i \in 1..Len(s) : \A j \in 1..Len(UpperLetters) : s[i] # UpperLetters[j]

\* C9 (as claimed): the lookup succeeds with the registered coordinate for
\* every spelling of a table key, and for every other input fails with a
\* KeyError (NotFound) that carries the input as the caller gave it.
C9_NotFoundCarriesOriginal ==
    pc # "resolve" =>
        IF CityKnown
        THEN /\ raised = NoExc
             /\ pc = "while" =>
                   params.latitude = 55751244 /\ params.longitude = 37618423
        ELSE /\ pc = "raised"
             /\ raised.type = "KeyError" /\ raised.site = "weather"
             /\ raised.arg = city_arg

\* C9 (amended): the same, but the KeyError carries the lower-cased input:
\* the caller's text with every upper-case letter replaced by its
\* lower-case one.
C9_NotFoundCarriesLowered ==
    pc # "resolve" =>
        IF CityKnown
        THEN /\ raised = NoExc
             /\ pc \in {"fetch", "while"}
             /\ pc = "while" =>
                   params.latitude = 55751244 /\ params.longitude = 37618423
        ELSE /\ pc = "raised"
             /\ raised.type = "KeyError" /\ raised.site = "weather"
             /\ IsCaseVariant(city_arg, raised.arg)
             /\ NoUpperCase(raised.arg)

\* C9 witness: "mOsCoW" resolved and its coordinate went into the request
C9_Witness ==
    /\ city_arg = << "m", "O", "s", "C", "o", "W" >>
    /\ pc = "while"
    /\ params.latitude = 55751244

\* the payload parsed from the last attempt of the current fetch_api call
LastPayload == attempts[Len(attempts)].response.body.json

\* C11: every iteration of the poller is fetch, present, sleep(interval), in
\* that order: the log of an iteration starts with a GET (never with a
\* sleep); what is presented comes after all GETs, diagnostics and retry
\* delays, follows a successful attempt and shows the payload of that
\* attempt; after the presentation comes one sleep of interval_sec, the last
\* event before the next iteration's first GET.
C11_FetchPresentSleep ==
    /\ events # << >> => IsGet(events[1])
    /\ pc \in {"resolve", "fetch"} /\ cycle = 0 => events = << >>
    /\ \A i \in 1..Len(events) : \A j \in (i + 1)..Len(events) :
          IsPresented(events[i]) =>
            /\ ~IsGet(events[j]) /\ ~IsDiagnostic(events[j])
            /\ IsSleep(events[j]) =>
                  j = Len(events) /\ events[j].sec = interval_sec
    /\ NPresented > 0 =>
          /\ Succeeded(attempts[Len(attempts)])
          /\ data_weather = LastPayload
          /\ Printed[NDiagnostics + 1].line = HeaderLine(Capitalize(Lower(city_arg)))
          /\ StructurallyValid(LastPayload) =>
                \A i \in 1..Len(param_current) :
                    /\ Len(Printed) >= NDiagnostics + 1 + i
                    /\ Printed[NDiagnostics + 1 + i].line
                          = ExpectedLine(LastPayload, param_current[i])
    /\ pc = "sleep" => NPresented > 0 /\ IsPresented(events[Len(events)])
    /\ pc = "fetch" /\ cycle > 0 =>
          /\ NPresented > 0
          /\ events[Len(events)] = EvSleep(interval_sec)
          /\ IsPresented(events[Len(events) - 1])

\* C11 witness: the first iteration is complete: two failed attempts, a
\* third that succeeded, the header and three lines, then the interval sleep
C11_Witness ==
    /\ cycle = 1
    /\ pc = "fetch"
    /\ interval_sec = 2
    /\ Len(attempts) = 3
    /\ NPresented = 4
    /\ events[Len(events)] = EvSleep(2)

\* a new iteration of the poller has begun: its first GET is about to go
CycleBegins == pc = "get" /\ attempts = << >>

\* C12: the poller stops only on a fatal error.  It ends only with an unknown
\* city, an exception of fetch_api, or a payload that is not structurally
\* valid; in every other run it begins a new iteration again and again,
\* whatever the number of iterations already completed.
C12_PollsForever ==
    /\ [](pc \in {"raised", "returned"} =>
            /\ pc = "raised"
            /\ \/ ~CityKnown
               \/ raised.site = "fetch_api"
               \/ ~StructurallyValid(data_weather))
    /\ ([]<>CycleBegins) \/ <>(pc = "raised")

\* C12 witness: MaxCycles iterations are complete, nothing was raised, and
\* one more iteration begins
C12_Witness ==
    /\ CycleBegins
    /\ cycle = MaxCycles
    /\ raised = NoExc

\* the `current` parameter owed to a metric set: its provider keys in order,
\* entry i at place 2i - 1, commas at the even places
IsJoinedKeys(q, metrics) ==
    /\ Len(q) = (IF Len(metrics) = 0 THEN 0 ELSE 2 * Len(metrics) - 1)
    /\ \A i \in 1..Len(metrics) : q[2 * i - 1] = metrics[i][1]
    /\ \A i \in 1..(Len(metrics) - 1) : q[2 * i] = ","

\* C13: every GET of a fetch_api call sends as `current` the provider keys
\* of the MetricSpec it was given, comma-joined in their order, none
\* dropped, merged or moved, duplicates included; all attempts of the call
\* send the same parameters.
C13_CurrentIsJoinedKeys ==
    \A i \in 1..Len(events) :
        IsGet(events[i]) =>
            /\ IsJoinedKeys(events[i].params.current, param_arg.val)
            /\ events[i].params = SelectSeq(events, IsGet)[1].params

\* C13 witness: a metric set with the same key twice went out, unchanged,
\* with the first and with the fifth attempt
C13_Witness ==
    /\ param_arg.val = << PARAM_CURRENT_DEFAULT[3], PARAM_CURRENT_DEFAULT[3] >>
    /\ NGets = 5
    /\ events[Len(events)].params.current
          = << "pressure_msl", ",", "pressure_msl" >>

\* C14: an iteration owes nothing to the ones before it.  In every
\* fetch_api call the retry counter counts the failed attempts of that call
\* alone, so each call has its 5 attempts; and what weather() holds and
\* prints after the call is the payload of the call's own last attempt.
C14_CyclesIndependent ==
    /\ pc \in {"while", "get"} => repeat_fetch = Len(attempts)
    /\ pc \in {"try", "retry_sleep"} => repeat_fetch = Len(attempts) - 1
    /\ pc = "while" /\ Len(attempts) < 5 => ENABLED WhileEnter
    /\ pc \in {"print", "sleep"} =>
          /\ Succeeded(attempts[Len(attempts)])
          /\ data_weather = LastPayload
    /\ pc = "sleep" /\ StructurallyValid(LastPayload) =>
          /\ Len(Printed) = NDiagnostics + 1 + Len(param_current)
          /\ \A i \in 1..Len(param_current) :
                Printed[NDiagnostics + 1 + i].line
                    = ExpectedLine(LastPayload, param_current[i])

\* C14 witness: the second iteration used all 5 attempts and printed the
\* payload of its fifth, the one without the humidity value
C14_Witness ==
    /\ cycle = 1
    /\ pc = "sleep"
    /\ Len(attempts) = 5
    /\ NGets = 5
    /\ data_weather = PartialPayload
    /\ param_arg = None
    /\ Printed[NDiagnostics + 3].line = MissingLine("relative_humidity_2m")

\* C15: the retry delay and the polling interval do not touch each other:
\* every sleep taken before the presentation of an iteration lasts 3,
\* whatever interval_sec is, and the sleep after the presentation lasts
\* interval_sec, whatever the number of failed attempts before it.
C15_DelaysIndependent ==
    /\ \A i \in 1..Len(events) :
          IsSleep(events[i]) =>
            IF \E j \in 1..(i - 1) : IsPresented(events[j])
            THEN events[i].sec = interval_sec
            ELSE events[i].sec = 3
    /\ pc = "fetch" /\ cycle > 0 =>
          /\ events[Len(events)] = EvSleep(interval_sec)
          /\ NSleeps = Len(attempts)

\* C15 witness: four failed attempts, four delays of 3, then the fifth
\* attempt, the presentation and a sleep of interval_sec = 1
C15_Witness ==
    /\ pc = "fetch"
    /\ cycle > 0
    /\ interval_sec = 1
    /\ Len(attempts) = 5
    /\ NSleeps = 5
    /\ events[3] = EvSleep(3)
    /\ events[Len(events)] = EvSleep(1)

\* the payload is a mapping in which `current` or `current_units` is
\* missing or null
Malformed(d) ==
    /\ d.tag = "object"
    /\ \E sec \in {"current", "current_units"} :
          sec \notin DOMAIN d.map \/ d.map[sec].tag = "null"

\* C16: fetch_api does not look into the payload.  An attempt with a success
\* status and a body that parses is the last of its call even when the
\* payload is malformed: no diagnostic and no delay follow it (the call has
\* printed and slept once per earlier attempt only), the payload goes to
\* weather() as it is, and the exception it leads to is print_weather's.
C16_FetchDoesNotValidate ==
    \A k \in 1..Len(attempts) :
        (Succeeded(attempts[k]) /\ Malformed(attempts[k].response.body.json)) =>
            /\ k = Len(attempts)
            /\ NGets = k
            /\ NDiagnostics = k - 1
            /\ NSleeps = k - 1
            /\ pc \in {"try", "print", "raised"}
            /\ pc # "try" => data_weather = attempts[k].response.body.json
            /\ pc = "raised" => raised = KeyErrorOfPrint

\* C16 witness: the first attempt brought a payload with a null `current`;
\* fetch_api returned it at once and print_weather refused it
C16_Witness ==
    /\ Len(attempts) = 1
    /\ Succeeded(attempts[1])
    /\ attempts[1].response.body.json = Payload(JNull, UnitsSection(MetricKeys))
    /\ pc = "raised"
    /\ raised = KeyErrorOfPrint
    /\ NSleeps = 0

\* the metric set the caller asked for: the one passed, or the default
RequestedMetrics ==
    IF param_arg = None THEN PARAM_CURRENT_DEFAULT ELSE param_arg.val

\* C17: once weather() has resolved its arguments, the city it holds is the
\* lower-cased argument and the metric set is the requested one, and no later
\* step (fetch, present, sleep) changes either; every GET, in every attempt
\* of every iteration, carries the latitude and longitude the table holds
\* for that city and the joined keys of that metric set.
C17_RequestNeverChanges ==
    /\ pc # "resolve" =>
          /\ city = Lower(city_arg)
          /\ param_current = RequestedMetrics
    /\ \A i \in 1..Len(events) :
          IsGet(events[i]) =>
            /\ Lower(city_arg) = Moscow
            /\ events[i].params.latitude = 55751244
            /\ events[i].params.longitude = 37618423
            /\ IsJoinedKeys(events[i].params.current, RequestedMetrics)

\* C17 witness: in the second iteration, after a presentation and an
\* interval sleep, the third attempt goes out with Moscow's coordinate and
\* the keys of the default metric set
C17_Witness ==
    /\ cycle = 1
    /\ param_arg = None
    /\ NGets = 3
    /\ events[Len(events)] =
          EvGet([latitude |-> 55751244, longitude |-> 37618423,
                 current |-> Join(<< PARAM_CURRENT_DEFAULT[1][1],
                                     PARAM_CURRENT_DEFAULT[2][1],
                                     PARAM_CURRENT_DEFAULT[3][1] >>)])

\* the log up to and including its i-th entry
Upto(i) == SubSeq(events, 1, i)
\* the attempts of the current call whose answer fetch_api has dealt with
Handled == IF pc = "try" THEN Len(attempts) - 1 ELSE Len(attempts)
\* the diagnostic fetch_api owes to a failed attempt
DiagnosticOf(o) ==
    EvPrint(ErrorLine(IF ~o.response.ok THEN "status" ELSE "decode"))

\* C18: within one fetch_api call the diagnostics are the failed attempts,
\* one for one and in their order: the k-th line names the failure of the
\* k-th failed attempt; a successful attempt adds none; and when the n-th
\* GET goes out, the n-1 lines for the n-1 failures before it are already
\* written.
C18_OneDiagnosticPerFailure ==
    LET diags == SelectSeq(events, IsDiagnostic)
        failed == { k \in 1..Handled : Failed(attempts[k]) }
    IN  /\ Len(diags) = Cardinality(failed)
        /\ \A k \in failed :
              /\ k <= Len(diags)
              /\ diags[k] = DiagnosticOf(attempts[k])
        /\ \A i \in 1..Len(events) :
              IsGet(events[i]) =>
                Len(SelectSeq(Upto(i), IsDiagnostic))
                    = Len(SelectSeq(Upto(i), IsGet)) - 1

\* C18 witness: a non-success status, then an undecodable body, then a
\* success: two diagnostics, each ahead of the next GET, none for the third
C18_Witness ==
    /\ pc = "print"
    /\ Len(attempts) = 3
    /\ ~attempts[1].response.ok
    /\ attempts[2].response.ok /\ ~attempts[2].response.body.parses
    /\ Succeeded(attempts[3])
    /\ Len(events) = 7
    /\ events[2] = EvPrint(ErrorLine("status"))
    /\ events[5] = EvPrint(ErrorLine("decode"))
    /\ IsGet(events[4]) /\ IsGet(events[7])

\* the line belongs to the MetricSpec entry m: its value line under the
\* entry's label, or the diagnostic naming the entry's key
LineOfEntry(line, m) ==
    \/ line.kind = "value" /\ line.label = Capitalize(m[2])
    \/ line.kind = "missing" /\ line.key = m[1]

\* C19: the default metric set has the three entries temperature, relative
\* humidity, mean sea-level pressure, in that order, and weather() works
\* with it exactly when no set was passed; a set that was passed, the empty
\* one included, is the one every GET asks for and the one a completed
\* presentation walks: header, then one line per entry, so the header alone
\* for the empty set.
C19_DefaultOnlyWhenNone ==
    LET used == IF param_arg = None THEN PARAM_CURRENT_DEFAULT
                                    ELSE param_arg.val
        shown == SelectSeq(events, IsPresented)
    IN  /\ Len(PARAM_CURRENT_DEFAULT) = 3
        /\ PARAM_CURRENT_DEFAULT[1][1] = "temperature_2m"
        /\ PARAM_CURRENT_DEFAULT[2][1] = "relative_humidity_2m"
        /\ PARAM_CURRENT_DEFAULT[3][1] = "pressure_msl"
        /\ pc # "resolve" =>
              (param_arg = None => param_current = PARAM_CURRENT_DEFAULT)
        /\ pc # "resolve" /\ param_arg # None => param_current = param_arg.val
        /\ \A i \in 1..Len(events) :
              IsGet(events[i]) =>
                events[i].params.current
                    = Join([k \in 1..Len(used) |-> used[k][1]])
        /\ pc = "sleep" =>
              /\ Len(shown) = Len(used) + 1
              /\ shown[1].line.kind = "header"
              /\ \A k \in 1..Len(used) :
                    LineOfEntry(shown[k + 1].line, used[k])

\* C19 witness: an empty metric set was passed; the GET asked for nothing
\* and the presentation is the header alone
C19_Witness ==
    /\ param_arg = Some(<< >>)
    /\ param_current = << >>
    /\ pc = "sleep"
    /\ events[1].params.current = << >>
    /\ Printed = << EvPrint(HeaderLine(<< "M", "o", "s", "c", "o", "w" >>)) >>

\* the payload holds a section whose value is null
HasNullSection(d) ==
    /\ d.tag = "object"
    /\ \E sec \in {"current", "current_units"} :
          sec \in DOMAIN d.map /\ d.map[sec].tag = "null"

\* the payload holds both sections and each is a mapping without entries
SectionsEmpty(d) ==
    /\ StructurallyValid(d)
    /\ DOMAIN d.map["current"].map = {}
    /\ DOMAIN d.map["current_units"].map = {}

\* C20: print_weather tells a null section from an empty one.  A payload
\* with `current` or `current_units` null is refused as one without the key
\* is: KeyError, nothing printed.  A payload whose two sections are empty
\* mappings passes the check: no exception, the header, then the diagnostic
\* of every MetricSpec entry in order.
C20_NullIsNotEmpty ==
    /\ (pc # "print" /\ HasNullSection(data_weather)) =>
          /\ pc = "raised"
          /\ raised = KeyErrorOfPrint
          /\ Printed = << >>
    /\ (pc # "print" /\ SectionsEmpty(data_weather)) =>
          /\ raised = NoExc
          /\ pc \in {"sleep", "fetch"}
          /\ Len(Printed) = Len(param_current) + 1
          /\ Printed[1].line = HeaderLine(<< "M", "o", "s", "c", "o", "w" >>)
          /\ \A i \in 1..Len(param_current) :
                Printed[i + 1].line = MissingLine(param_current[i][1])

\* C20 witness: both sections are empty mappings, two metrics were asked,
\* and the header and two diagnostics were printed
C20_Witness ==
    /\ pc = "sleep"
    /\ data_weather = Payload(CurrentSection({}), UnitsSection({}))
    /\ Len(param_current) = 2
    /\ raised = NoExc
    /\ Len(Printed) = 3
    /\ Printed[2].line = MissingLine(param_current[1][1])
    /\ Printed[3].line = MissingLine(param_current[2][1])

=============================================================================
